---- MODULE Spec2Model ----
(***************************************************************************)
(* The session controller of the Agent Council frontend                    *)
(* (src/static/app.js): the shared `state` object, the parts of the DOM    *)
(* the handlers write, the WebSocket callbacks and the user actions.       *)
(*                                                                         *)
(* JavaScript runs one handler at a time, so every handler is one atomic   *)
(* action.  Texts are sequences of one-character strings, so that trim(),  *)
(* length and split() are computed and not assumed.  An optional JSON      *)
(* field is <<>> when it is absent and <<v>> when it holds v.              *)
(***************************************************************************)
EXTENDS Integers, Sequences, FiniteSets, TLC

(***************************************************************************)
(* Bounds of the model.                                                    *)
(***************************************************************************)
MaxStream  == 1      \* newest children of #chat-messages the model keeps
MaxSent    == 1      \* task messages in flight to the backend
MaxSockets == 2      \* WebSocket objects the model tells apart; Spec stops at the last
MaxRound   == 1      \* largest round number a round_start carries
MaxPolls   == 1      \* /api/health requests of fetchHud in flight
MaxKept    == 2      \* newest children of #chat-messages kept in SpecOrder

(***************************************************************************)
(* Program constants.                                                      *)
(***************************************************************************)
PaletteSize == 5     \* colorIndex: (nextColorIndex % 5) + 1

Whitespace == {" "}

None == <<>>
Some(v) == <<v>>
IsNone(o) == o = <<>>

\* fixed texts of the program
NoResponse == <<"[","N","o"," ","r","e","s","p","o","n","s","e","]">>
UnknownError == <<"U","n","k","n","o","w","n"," ","e","r","r","o","r">>
NotConnected == <<"W","e","b","S","o","c","k","e","t"," ","n","o","t"," ",
                  "c","o","n","n","e","c","t","e","d",".">>
SessionComplete == <<"S","e","s","s","i","o","n"," ","c","o","m","p","l","e","t","e">>
LmUnreachable == <<"L","M"," ","S","t","u","d","i","o"," ","n","o","t"," ",
                   "r","e","a","c","h","a","b","l","e",".">>
ConfigFailed == <<"F","a","i","l","e","d"," ","t","o"," ","l","o","a","d"," ",
                  "c","o","n","f","i","g",":"," ">>


(***************************************************************************)
(* Pure functions.                                                         *)
(***************************************************************************)
Min(a, b) == IF a <= b THEN a ELSE b

RECURSIVE TrimLeft(_)
TrimLeft(s) ==
  IF s = <<>> THEN s
  ELSE IF Head(s) \in Whitespace THEN TrimLeft(Tail(s)) ELSE s

RECURSIVE TrimRight(_)
TrimRight(s) ==
  IF s = <<>> THEN s
  ELSE IF s[Len(s)] \in Whitespace THEN TrimRight(SubSeq(s, 1, Len(s) - 1)) ELSE s

\* String.prototype.trim
Trim(s) == TrimRight(TrimLeft(s))

\* s.split(/\s+/).length: one piece more than there are runs of whitespace
SplitCount(s) ==
  1 + Cardinality({i \in 1..Len(s) :
                     /\ s[i] \in Whitespace
                     /\ (i = 1 \/ s[i - 1] \notin Whitespace)})

\* a card content without the placeholder
CardContentBare(c) ==
  IF IsNone(c) THEN <<>> ELSE Trim(c[1])

\* (x || '').trim() || '[No response]' of handleEvent
CardContent(c) ==
  LET raw == IF IsNone(c) THEN <<>> ELSE c[1]
  IN  IF Trim(raw) = <<>> THEN NoResponse ELSE Trim(raw)

\* an error text that is trimmed like the content of a card
ErrorTextTrimmed(c) ==
  IF IsNone(c) \/ Trim(c[1]) = <<>> THEN UnknownError ELSE Trim(c[1])

\* e.content || 'Unknown error' of handleEvent
ErrorText(c) ==
  IF IsNone(c) \/ c = Some(<<>>) THEN UnknownError ELSE c[1]

\* Sub-scores are kept as integers, ScoreScale times the number the code computes:
\* 280 is the least common multiple of the divisors 10, 14 and 8 of recordScore.
ScoreScale == 280

ScoreOf(content) ==
  LET words == SplitCount(content)
      chars == Len(content)
  IN  [acc  |-> Min(2744, 1820 + 28 * (chars % 30)),
       comp |-> Min(2744, 1680 + 20 * (words % 40)),
       conc |-> Min(2744, 1540 + 35 * (chars % 20)),
       tone |-> Min(2744, 1820 + 28 * (words % 20))]


(***************************************************************************)
(* Inputs of the environment.                                              *)
(***************************************************************************)
Agents == {"Alpha", "Beta"}

\* The property key JavaScript uses for an agent_done that carries no agent name.
Undefined == "undefined"

Roles == Agents \cup {Undefined}

\* what the user may have typed into #chat-input: nothing, blanks, padded text
Texts == {<<>>, <<" ", " ">>, <<" ", "a", " ">>}

\* content of an inbound event: absent, empty, whitespace only, padded text
Contents == {None, Some(<<>>), Some(<<" ">>), Some(<<" ", "a">>)}

Ev(type, agent, content, round, total) ==
  [type |-> type, agent |-> agent, content |-> content, round |-> round, total |-> total]

\* The events a backend may send about the roles R with the contents C;
\* total = 0 stands for a round_start without metadata.total_rounds.
EventsOf(R, C) ==
       {Ev("status", Undefined, c, 0, 0) : c \in C}
  \cup {Ev("round_start", Undefined, None, r, t) : r \in 1..MaxRound, t \in {0, MaxRound}}
  \cup {Ev("agent_done", a, c, 0, 0) : a \in R, c \in C}
  \cup {Ev("moderator_done", Undefined, c, 0, 0) : c \in C}
  \cup {Ev("error", Undefined, c, 0, 0) : c \in C}
  \cup {Ev("council_done", Undefined, None, 0, 0)}
  \cup {Ev("agent_start", a, None, 0, 0) : a \in R \ {Undefined}}


\* /api/config answers: the council keys and defaults.council
FullConfig == [councils |-> {"general", "coding"}, default |-> Some("coding")]
Configs ==
  { FullConfig,
    [councils |-> {"coding"}, default |-> None],
    [councils |-> {"coding"}, default |-> Some("research")] }

SocketIds == 1..MaxSockets

(***************************************************************************)
(* State.                                                                  *)
(***************************************************************************)
VARIABLES
  \* the fields of `state`
  ws,               \* the socket state.ws refers to
  councils,         \* keys of state.councils
  selectedCouncil,
  isRunning,
  agentColors,      \* role -> palette index, 0 where the key is absent
  nextColorIndex,
  sessionStart,     \* FALSE: null, TRUE: a timestamp
  timerInterval,    \* "null" or "interval": the elapsed-time clock is ticking
  scores,           \* the score records, in the insertion order of their keys
  \* the DOM the handlers write
  chatMessages,     \* the newest children of #chat-messages, oldest first
  scoreList,        \* #score-list
  connLabel,        \* the connection indicator shows Connected
  inputDisabled,    \* #send-btn and #chat-input are disabled
  sessionTimer,     \* #session-timer: "blank" or "elapsed"
  rubric,           \* the values of the four rubric sliders
  \* the environment
  socket,           \* every WebSocket object created so far
  reconnects,       \* pending setTimeout(connectWs, 2000) callbacks
  sent,             \* what ws.send was given and the backend has not read yet
  configPending,    \* the /api/config request of loadConfig is in flight
  healthPending,    \* the /api/health request of checkHealth is in flight
  hudInterval,      \* the setInterval(fetchHud, 3000) of startHudLoop is set
  hudInFlight,      \* /api/health requests of fetchHud in flight
  hudData,          \* hudData.cpu, standing for the four gauges
  \* history, for the properties
  sessionEnds,      \* transitions from running to idle since the last accepted task
  clockStops,       \* intervals cancelled since the last accepted task
  lastSubmit,       \* how the sendTask call that was the last step ended, or "none"
  kept,             \* how many of the newest children of #chat-messages are kept
  lastStep          \* "poll": the last step was fetchHud called by its interval;
                    \* "ignored": it was an event handleEvent has no branch for

connVars  == <<ws, socket, reconnects, connLabel>>
cfgVars   == <<councils, selectedCouncil, configPending>>
sessVars  == <<isRunning, inputDisabled, sessionStart, timerInterval>>
colorVars == <<agentColors, nextColorIndex>>
scoreVars == <<scores, scoreList>>
hudVars   == <<hudInterval, hudInFlight, hudData>>
histVars  == <<sessionEnds, clockStops, lastSubmit, lastStep, kept>>
vars == <<connVars, cfgVars, sessVars, colorVars, scoreVars, chatMessages,
          sessionTimer, rubric, sent, healthPending, hudVars, histVars>>

NoColors == [r \in Roles |-> 0]

\* #score-list: the "Run a prompt to see rankings." text, or the ranked rows
EmptyScoreList == [placeholder |-> TRUE, rows |-> <<>>]

\* the values getRubric falls back to, taken as the sliders' initial values
DefaultRubric == [a |-> 45, c |-> 25, k |-> 15, t |-> 15]

\* DOMContentLoaded has run: loadConfig and checkHealth are in flight and
\* connectWs has created the first socket.
Init ==
  /\ kept = MaxStream
  /\ ws = 1
  /\ socket = [s \in SocketIds |-> IF s = 1 THEN "connecting" ELSE "none"]
  /\ reconnects = 0
  /\ connLabel = FALSE
  /\ councils = {}
  /\ selectedCouncil = "general"
  /\ configPending = TRUE
  /\ healthPending = TRUE
  /\ hudInterval = TRUE
  /\ hudInFlight = 1
  /\ hudData = 0
  /\ isRunning = FALSE
  /\ inputDisabled = FALSE
  /\ sessionStart = FALSE
  /\ timerInterval = "null"
  /\ agentColors = NoColors
  /\ nextColorIndex = 1
  /\ scores = <<>>
  /\ scoreList = EmptyScoreList
  /\ chatMessages = <<>>
  /\ sessionTimer = "blank"
  /\ rubric = DefaultRubric
  /\ sent = <<>>
  /\ sessionEnds = 0
  /\ clockStops = 0
  /\ lastSubmit = "none"
  /\ lastStep = "none"


(***************************************************************************)
(* The message stream.  Markup that no handler reads back (the welcome     *)
(* panel, scrolling, focus, the model label and the stat row of a card)    *)
(* is not part of an entry.                                                *)
(***************************************************************************)
Entry(kind, role, idx, text, round, total) ==
  [kind |-> kind, role |-> role, idx |-> idx, text |-> text,
   round |-> round, total |-> total]

UserEntry(text)    == Entry("user", "", 0, text, 0, 0)
StatusEntry(text)  == Entry("status", "", 0, text, 0, 0)
ErrorEntry(text)   == Entry("error", "", 0, text, 0, 0)
RoundEntry(r, t)   == Entry("round", "", 0, <<>>, r, t)
CardEntry(role, idx, text, isModerator) ==
  Entry(IF isModerator THEN "moderator" ELSE "agent", role, idx, text, 0, 0)

\* the newest `kept` entries of a stream
Newest(stream) ==
  IF Len(stream) <= kept THEN stream
  ELSE SubSeq(stream, Len(stream) - kept + 1, Len(stream))

\* an appendMessage that puts the node before the children of #chat-messages
appendMessageFirst(node) ==
  chatMessages' = IF Len(chatMessages) < kept THEN <<node>> \o chatMessages
                  ELSE <<node>> \o SubSeq(chatMessages, 1, kept - 1)

\* appendMessage
appendMessage(node) == chatMessages' = Newest(Append(chatMessages, node))

(***************************************************************************)
(* The bounds of the model, and the history variables.  Every action but   *)
(* sendTask ends with Tracked; sendTask records how it ended itself.       *)
(***************************************************************************)
Within == Len(sent') <= MaxSent /\ kept' = kept

History ==
  /\ sessionEnds' = IF Len(sent') > Len(sent) THEN 0
                    ELSE IF isRunning /\ ~isRunning' THEN sessionEnds + 1
                    ELSE sessionEnds
  /\ clockStops'  = IF Len(sent') > Len(sent) THEN 0
                    ELSE IF timerInterval = "interval" /\ timerInterval' = "null"
                         THEN clockStops + 1
                    ELSE clockStops

Tracked == Within /\ History /\ lastSubmit' = "none" /\ lastStep' = "none"

(***************************************************************************)
(* Timer.                                                                  *)
(***************************************************************************)
\* startTimer: a running interval is cleared before the new one is set
startTimer ==
  /\ sessionStart' = TRUE
  /\ timerInterval' = "interval"

\* a stopTimer that leaves the interval running
stopTimerForgotten == UNCHANGED timerInterval

\* stopTimer
stopTimer == timerInterval' = "null"

\* updateInputState
updateInputState == inputDisabled' = isRunning'

\* the interval callback of startTimer
TimerTick ==
  /\ timerInterval = "interval"
  /\ sessionTimer' = "elapsed"
  /\ UNCHANGED <<connVars, cfgVars, sessVars, colorVars, scoreVars, chatMessages,
                 rubric, sent, healthPending, hudVars>>
  /\ Tracked

(***************************************************************************)
(* Color/identity assigner.                                                *)
(***************************************************************************)
\* colorIndex(role): the map after the call
colorIndexColors(role) ==
  IF agentColors[role] = 0
    THEN [agentColors EXCEPT ![role] = nextColorIndex]
    ELSE agentColors

\* colorIndex(role): the counter after the call
colorIndexNext(role) ==
  IF agentColors[role] = 0
    THEN (nextColorIndex % PaletteSize) + 1
    ELSE nextColorIndex

\* colorIndex(role): the index returned
colorIndex(role) == colorIndexColors(role)[role]

(***************************************************************************)
(* Scoring engine.                                                         *)
(***************************************************************************)
HasScore(role) == \E i \in 1..Len(scores) : scores[i].role = role

ScoreRecord(role, content) ==
  LET sc == ScoreOf(content)
  IN  [role |-> role, acc |-> sc.acc, comp |-> sc.comp, conc |-> sc.conc, tone |-> sc.tone]

\* a recordScore that keeps the first record of a role
recordScoreOnce(role, content) ==
  IF HasScore(role) THEN scores ELSE Append(scores, ScoreRecord(role, content))

\* recordScore: state.scores[role] = {...}; an existing key keeps its place
recordScore(role, content) ==
  IF HasScore(role)
    THEN [i \in 1..Len(scores) |->
            IF scores[i].role = role THEN ScoreRecord(role, content) ELSE scores[i]]
    ELSE Append(scores, ScoreRecord(role, content))

\* Number(value) || default, for the slider values r
RubricOf(r) ==
  [a |-> IF r.a = 0 THEN 45 ELSE r.a,
   c |-> IF r.c = 0 THEN 25 ELSE r.c,
   k |-> IF r.k = 0 THEN 15 ELSE r.k,
   t |-> IF r.t = 0 THEN 15 ELSE r.t]

\* getRubric
getRubric == RubricOf(rubric)

\* rubric.a + rubric.c + rubric.k + rubric.t || 1, for the weights w
TotalOf(w) ==
  LET sum == w.a + w.c + w.k + w.t
  IN  IF sum = 0 THEN 1 ELSE sum

RubricTotal == TotalOf(getRubric)

\* a row of the scoreboard for the weights w: overall is overall * total in the
\* code's terms, and every row of one rendering has the same total
ScoreRowOf(s, w) ==
  [role |-> s.role,
   overall |-> s.acc * w.a + s.comp * w.c + s.conc * w.k + s.tone * w.t,
   total |-> TotalOf(w)]

ScoreRow(s) == ScoreRowOf(s, getRubric)

\* a sort that puts a row before the rows it ties with
InsertRowBeforeTies(sorted, x) ==
  LET k == Cardinality({i \in 1..Len(sorted) : sorted[i].overall > x.overall})
  IN  SubSeq(sorted, 1, k) \o <<x>> \o SubSeq(sorted, k + 1, Len(sorted))

\* rows.sort(function (a, b) { return b.overall - a.overall; }): a stable sort
InsertRow(sorted, x) ==
  LET k == Cardinality({i \in 1..Len(sorted) : sorted[i].overall >= x.overall})
  IN  SubSeq(sorted, 1, k) \o <<x>> \o SubSeq(sorted, k + 1, Len(sorted))

RECURSIVE SortRows(_)
SortRows(rows) ==
  IF rows = <<>> THEN <<>>
  ELSE InsertRow(SortRows(SubSeq(rows, 1, Len(rows) - 1)), rows[Len(rows)])

\* renderScoreboard: what #score-list holds after the call, for score records sc
\* and slider values r
ScoreboardOf(sc, r) ==
  [placeholder |-> FALSE,
   rows |-> SortRows([i \in 1..Len(sc) |-> ScoreRowOf(sc[i], RubricOf(r))])]

Scoreboard(sc) == ScoreboardOf(sc, rubric)

renderScoreboard == scoreList' = Scoreboard(scores)


(***************************************************************************)
(* Submission.                                                             *)
(***************************************************************************)
\* sendTask without its re-entrancy guard
sendTaskNeverBlocked == FALSE

\* if (state.isRunning) return;
sendTaskBlocked == isRunning

\* sendTask without its check of the connection
assumedConnected == FALSE

\* !state.ws || state.ws.readyState !== WebSocket.OPEN
notConnected == socket[ws] # "open"

\* a task message that names the default council, not the selected one
TaskMessageDefaultCouncil(task) ==
  [type |-> "task", council |-> "general", task |-> task]

\* the object given to state.ws.send
TaskMessage(task) ==
  [type |-> "task", council |-> selectedCouncil, task |-> task]

\* a rejection that shows nothing
rejectSilently == UNCHANGED chatMessages

\* addError('WebSocket not connected.'); return;
rejectNotConnected == appendMessage(ErrorEntry(NotConnected))

\* what sendTask does once its three checks have passed
acceptTask(task) ==
  /\ agentColors' = NoColors
  /\ nextColorIndex' = 1
  /\ scores' = <<>>
  /\ appendMessage(UserEntry(task))
  /\ sent' = Append(sent, TaskMessage(task))
  /\ isRunning' = TRUE
  /\ updateInputState
  /\ startTimer

\* sendTask, with `text` the value of #chat-input.  The function is modelled as
\* callable in every state: that the controls are disabled while running is the
\* markup's guard, not this function's.
SendTask(text) ==
  LET task == Trim(text)
  IN  /\ IF sendTaskBlocked \/ task = <<>>
           THEN UNCHANGED <<sessVars, colorVars, scores, chatMessages, sent>>
         ELSE IF notConnected
           THEN /\ rejectNotConnected
                /\ UNCHANGED <<sessVars, colorVars, scores, sent>>
         ELSE acceptTask(task)
      /\ lastSubmit' = IF sendTaskBlocked THEN "running"
                       ELSE IF task = <<>> THEN "empty"
                       ELSE IF notConnected THEN "closed"
                       ELSE "accepted"
      /\ UNCHANGED <<connVars, cfgVars, scoreList, sessionTimer, rubric, healthPending, hudVars>>
      /\ Within /\ History
      /\ lastStep' = "none"

(***************************************************************************)
(* Inbound events.  An exception thrown inside handleEvent is caught by    *)
(* onmessage, so what the handler wrote before it threw stays written.     *)
(***************************************************************************)
\* addStatus(e.content): text.indexOf throws when the event carries no content
onStatus(e) ==
  /\ IF IsNone(e.content)
       THEN UNCHANGED chatMessages
       ELSE appendMessage(StatusEntry(e.content[1]))
  /\ UNCHANGED <<sessVars, colorVars, scoreVars>>

\* a round_start that starts the colors of the round afresh
onRoundStartRecolors(e) ==
  /\ appendMessage(RoundEntry(e.round, e.total))
  /\ agentColors' = NoColors
  /\ nextColorIndex' = 1
  /\ UNCHANGED <<sessVars, scoreVars>>

onRoundStart(e) ==
  /\ appendMessage(RoundEntry(e.round, e.total))
  /\ UNCHANGED <<sessVars, colorVars, scoreVars>>

\* addAgentCard(e.agent, ..., content, false) then recordScore(e.agent, content);
\* without an agent name role.split throws after colorIndex has run
onAgentDone(e) ==
  LET content == CardContent(e.content)
      role    == e.agent
  IN  /\ agentColors' = colorIndexColors(role)
      /\ nextColorIndex' = colorIndexNext(role)
      /\ IF role = Undefined
           THEN UNCHANGED <<chatMessages, scores>>
           ELSE /\ appendMessage(CardEntry(role, colorIndex(role), content, FALSE))
                /\ scores' = recordScore(role, content)
      /\ UNCHANGED <<sessVars, scoreList>>

\* a moderator card that takes the next index of the palette
onModeratorDoneColored(e) ==
  /\ appendMessage(CardEntry("Moderator", nextColorIndex, CardContent(e.content), TRUE))
  /\ nextColorIndex' = (nextColorIndex % PaletteSize) + 1
  /\ UNCHANGED <<sessVars, agentColors, scoreVars>>

\* addAgentCard('Moderator', ..., content, true): idx is 0, colorIndex is not called
onModeratorDone(e) ==
  /\ appendMessage(CardEntry("Moderator", 0, CardContent(e.content), TRUE))
  /\ UNCHANGED <<sessVars, colorVars, scoreVars>>

onError(e) ==
  /\ isRunning' = FALSE
  /\ updateInputState
  /\ stopTimer
  /\ appendMessage(ErrorEntry(ErrorText(e.content)))
  /\ UNCHANGED <<sessionStart, colorVars, scoreVars>>

onCouncilDone ==
  /\ isRunning' = FALSE
  /\ updateInputState
  /\ stopTimer
  /\ renderScoreboard
  /\ appendMessage(StatusEntry(SessionComplete))
  /\ UNCHANGED <<sessionStart, colorVars, scores>>

\* a handleEvent that takes an event of a type it does not know for the end of the
\* session
handleEventUnknownEnds(e) ==
  CASE e.type = "status"         -> onStatus(e)
    [] e.type = "round_start"    -> onRoundStart(e)
    [] e.type = "agent_done"     -> onAgentDone(e)
    [] e.type = "moderator_done" -> onModeratorDone(e)
    [] e.type = "error"          -> onError(e)
    [] OTHER                     -> onCouncilDone

handleEvent(e) ==
  CASE e.type = "status"         -> onStatus(e)
    [] e.type = "round_start"    -> onRoundStart(e)
    [] e.type = "agent_done"     -> onAgentDone(e)
    [] e.type = "moderator_done" -> onModeratorDone(e)
    [] e.type = "error"          -> onError(e)
    [] e.type = "council_done"   -> onCouncilDone
    [] OTHER                     -> UNCHANGED <<sessVars, colorVars, scoreVars, chatMessages>>

\* the event types handleEvent has a branch for
EventTypes ==
  {"status", "round_start", "agent_done", "moderator_done", "error", "council_done"}

\* onmessage of socket s with a payload that parses to e
WsMessage(s, e) ==
  /\ socket[s] = "open"
  /\ handleEvent(e)
  /\ UNCHANGED <<connVars, cfgVars, sessionTimer, rubric, sent, healthPending, hudVars>>
  /\ Within /\ History /\ lastSubmit' = "none"
  /\ lastStep' = IF e.type \in EventTypes THEN "none" ELSE "ignored"

\* onmessage of socket s with a payload JSON.parse rejects
WsUnparsable(s) ==
  /\ socket[s] = "open"
  /\ UNCHANGED <<connVars, cfgVars, sessVars, colorVars, scoreVars, chatMessages,
                 sessionTimer, rubric, sent, healthPending, hudVars>>
  /\ Tracked


(***************************************************************************)
(* Connection manager.  A socket is "connecting", "open", "errored" (its   *)
(* error event has fired, its close event has not yet) or "closed".        *)
(***************************************************************************)
\* setConn(ok)
setConn(ok) == connLabel' = ok

\* onopen of socket s
WsOpen(s) ==
  /\ socket[s] = "connecting"
  /\ socket' = [socket EXCEPT ![s] = "open"]
  /\ setConn(TRUE)
  /\ UNCHANGED <<ws, reconnects, cfgVars, sessVars, colorVars, scoreVars, chatMessages,
                 sessionTimer, rubric, sent, healthPending, hudVars>>
  /\ Tracked

\* an onerror that schedules a reconnect as onclose does
WsErrorReconnects(s) ==
  /\ socket[s] \in {"connecting", "open"}
  /\ socket' = [socket EXCEPT ![s] = "errored"]
  /\ setConn(FALSE)
  /\ reconnects' = reconnects + 1
  /\ UNCHANGED <<ws, cfgVars, sessVars, colorVars, scoreVars, chatMessages,
                 sessionTimer, rubric, sent, healthPending, hudVars>>
  /\ Tracked

\* onerror of socket s
WsError(s) ==
  /\ socket[s] \in {"connecting", "open"}
  /\ socket' = [socket EXCEPT ![s] = "errored"]
  /\ setConn(FALSE)
  /\ UNCHANGED <<ws, reconnects, cfgVars, sessVars, colorVars, scoreVars, chatMessages,
                 sessionTimer, rubric, sent, healthPending, hudVars>>
  /\ Tracked

\* an onclose that gives up the running task
WsCloseEndsSession(s) ==
  /\ socket[s] \in {"connecting", "open", "errored"}
  /\ socket' = [socket EXCEPT ![s] = "closed"]
  /\ setConn(FALSE)
  /\ reconnects' = reconnects + 1
  /\ isRunning' = FALSE
  /\ updateInputState
  /\ stopTimer
  /\ UNCHANGED <<ws, cfgVars, sessionStart, colorVars, scoreVars, chatMessages,
                 sessionTimer, rubric, sent, healthPending, hudVars>>
  /\ Tracked

\* an onclose that cancels the interval of startHudLoop
WsCloseStopsHud(s) ==
  /\ socket[s] \in {"connecting", "open", "errored"}
  /\ socket' = [socket EXCEPT ![s] = "closed"]
  /\ setConn(FALSE)
  /\ reconnects' = reconnects + 1
  /\ hudInterval' = FALSE
  /\ UNCHANGED <<ws, cfgVars, sessVars, colorVars, scoreVars, chatMessages,
                 sessionTimer, rubric, sent, healthPending, hudInFlight, hudData>>
  /\ Tracked

\* an onclose that retries for the first socket only
WsCloseRetryOnce(s) ==
  /\ socket[s] \in {"connecting", "open", "errored"}
  /\ socket' = [socket EXCEPT ![s] = "closed"]
  /\ setConn(FALSE)
  /\ reconnects' = IF s = 1 /\ socket[2] = "none" THEN reconnects + 1 ELSE reconnects
  /\ UNCHANGED <<ws, cfgVars, sessVars, colorVars, scoreVars, chatMessages,
                 sessionTimer, rubric, sent, healthPending, hudVars>>
  /\ Tracked

\* onclose of socket s: setConn(false); setTimeout(connectWs, 2000)
WsClose(s) ==
  /\ socket[s] \in {"connecting", "open", "errored"}
  /\ socket' = [socket EXCEPT ![s] = "closed"]
  /\ setConn(FALSE)
  /\ reconnects' = reconnects + 1
  /\ UNCHANGED <<ws, cfgVars, sessVars, colorVars, scoreVars, chatMessages,
                 sessionTimer, rubric, sent, healthPending, hudVars>>
  /\ Tracked

\* connectWs: state.ws = new WebSocket(...).  The socket objects are told apart
\* modulo MaxSockets: the new one takes the place of the oldest, which has closed,
\* since a socket is only created after the one before it has closed.
connectWs ==
  /\ ws' = (ws % MaxSockets) + 1
  /\ socket' = [socket EXCEPT ![(ws % MaxSockets) + 1] = "connecting"]

\* a pending setTimeout(connectWs, 2000) fires
ReconnectTimer ==
  /\ reconnects > 0
  /\ reconnects' = reconnects - 1
  /\ connectWs
  /\ UNCHANGED <<connLabel, cfgVars, sessVars, colorVars, scoreVars, chatMessages,
                 sessionTimer, rubric, sent, healthPending, hudVars>>
  /\ Tracked

\* the backend reads the oldest message in flight
BackendReads ==
  /\ sent # <<>>
  /\ sent' = Tail(sent)
  /\ UNCHANGED <<connVars, cfgVars, sessVars, colorVars, scoreVars, chatMessages,
                 sessionTimer, rubric, healthPending, hudVars>>
  /\ Tracked

(***************************************************************************)
(* Configuration and health.                                               *)
(***************************************************************************)
\* selectCouncil(key): the assignment comes before the lookup of the key
selectCouncil(key) == selectedCouncil' = key

\* the .then of loadConfig
LoadConfigOk(cfg) ==
  /\ configPending
  /\ configPending' = FALSE
  /\ councils' = cfg.councils
  /\ selectCouncil(IF IsNone(cfg.default) THEN "general" ELSE cfg.default[1])
  /\ UNCHANGED <<connVars, sessVars, colorVars, scoreVars, chatMessages,
                 sessionTimer, rubric, sent, healthPending, hudVars>>
  /\ Tracked

\* the .catch of loadConfig
LoadConfigFail ==
  /\ configPending
  /\ configPending' = FALSE
  /\ appendMessage(ErrorEntry(ConfigFailed))
  /\ UNCHANGED <<connVars, councils, selectedCouncil, sessVars, colorVars, scoreVars,
                 sessionTimer, rubric, sent, healthPending, hudVars>>
  /\ Tracked

\* onclick of a council button: renderCouncilList makes one per loaded key
SelectCouncil(key) ==
  /\ key \in councils
  /\ selectCouncil(key)
  /\ UNCHANGED <<connVars, councils, configPending, sessVars, colorVars, scoreVars,
                 chatMessages, sessionTimer, rubric, sent, healthPending, hudVars>>
  /\ Tracked

\* the .then of checkHealth; a failed request is swallowed
HealthResult(connected) ==
  /\ healthPending
  /\ healthPending' = FALSE
  /\ IF connected
       THEN UNCHANGED chatMessages
       ELSE appendMessage(StatusEntry(LmUnreachable))
  /\ UNCHANGED <<connVars, cfgVars, sessVars, colorVars, scoreVars,
                 sessionTimer, rubric, sent, hudVars>>
  /\ Tracked

(***************************************************************************)
(* Clear session and rubric.                                               *)
(***************************************************************************)
ClearChat ==
  /\ chatMessages' = <<>>
  /\ agentColors' = NoColors
  /\ nextColorIndex' = 1
  /\ scores' = <<>>
  /\ scoreList' = EmptyScoreList
  /\ stopTimer
  /\ sessionTimer' = "blank"
  /\ UNCHANGED <<connVars, cfgVars, isRunning, inputDisabled, sessionStart,
                 rubric, sent, healthPending, hudVars>>
  /\ Tracked

(***************************************************************************)
(* System HUD.  startHudLoop calls fetchHud once and sets an interval that *)
(* no code of the page clears.                                             *)
(***************************************************************************)
\* what /api/health reports as system.cpu: nothing, or a percentage
HudReadings == {None, Some(50)}

\* the interval of startHudLoop fires: fetchHud sends a request
HudTick ==
  /\ hudInterval
  /\ hudInFlight < MaxPolls
  /\ hudInFlight' = hudInFlight + 1
  /\ UNCHANGED <<hudInterval, hudData>>
  /\ UNCHANGED <<connVars, cfgVars, sessVars, colorVars, scoreVars, chatMessages,
                 sessionTimer, rubric, sent, healthPending>>
  /\ Within /\ History /\ lastSubmit' = "none"
  /\ lastStep' = "poll"

\* the .then of fetchHud with the reading d; updateHud shows hudData
HudResult(d) ==
  /\ hudInFlight > 0
  /\ hudInFlight' = hudInFlight - 1
  /\ hudData' = IF IsNone(d) THEN hudData ELSE d[1]
  /\ UNCHANGED hudInterval
  /\ UNCHANGED <<connVars, cfgVars, sessVars, colorVars, scoreVars, chatMessages,
                 sessionTimer, rubric, sent, healthPending>>
  /\ Tracked

\* the .catch of fetchHud: the request failed
HudFailed ==
  /\ hudInFlight > 0
  /\ hudInFlight' = hudInFlight - 1
  /\ UNCHANGED <<hudInterval, hudData>>
  /\ UNCHANGED <<connVars, cfgVars, sessVars, colorVars, scoreVars, chatMessages,
                 sessionTimer, rubric, sent, healthPending>>
  /\ Tracked

\* the user moves slider id to v; its input handler is updateRubric
UpdateRubric(id, v) ==
  /\ rubric' = [rubric EXCEPT ![id] = v]
  /\ scores' = scores
  /\ IF Len(scores) # 0
       THEN scoreList' = ScoreboardOf(scores, rubric')
       ELSE UNCHANGED scoreList
  /\ UNCHANGED <<connVars, cfgVars, sessVars, colorVars, chatMessages,
                 sessionTimer, sent, healthPending, hudVars>>
  /\ Tracked

(***************************************************************************)
(* Spec: the session lifecycle.  Every callback of the connection, every   *)
(* user action but the rubric sliders, and events about one agent, over    *)
(* the first MaxSockets sockets of the page.                               *)
(***************************************************************************)
LifecycleEvents ==
  {e \in EventsOf({"Alpha"}, {None, Some(<<>>), Some(<<" ", "a">>)}) : e.type \in EventTypes}

Next ==
  \/ \E text \in Texts : SendTask(text)
  \/ \E s \in SocketIds, e \in LifecycleEvents : WsMessage(s, e)
  \/ \E s \in SocketIds : WsUnparsable(s)
  \/ \E s \in SocketIds : WsOpen(s)
  \/ \E s \in SocketIds : WsError(s)
  \/ \E s \in SocketIds : WsClose(s)
  \/ (ws < MaxSockets /\ ReconnectTimer)
  \/ BackendReads
  \/ LoadConfigOk(FullConfig)
  \/ \E key \in FullConfig.councils : SelectCouncil(key)
  \/ ClearChat

Spec == Init /\ [][Next]_vars

(***************************************************************************)
(* SpecCards: the cards and scores of a session.  The page has loaded, the *)
(* connection is open and stays open, and the backend sends the events     *)
(* that make cards or end a session, about two agents, with and without an *)
(* agent name.  Rejected submissions and the contents of status and error  *)
(* events are varied in Spec.                                              *)
(***************************************************************************)
Loaded ==
  /\ ws = 1
  /\ socket = [s \in SocketIds |-> IF s = 1 THEN "open" ELSE "none"]
  /\ reconnects = 0
  /\ connLabel = TRUE
  /\ councils = FullConfig.councils
  /\ selectedCouncil = "coding"
  /\ configPending = FALSE
  /\ healthPending = FALSE
  /\ hudInterval = TRUE
  /\ hudInFlight = 0
  /\ hudData = 0
  /\ isRunning = FALSE
  /\ inputDisabled = FALSE
  /\ sessionStart = FALSE
  /\ timerInterval = "null"
  /\ agentColors = NoColors
  /\ nextColorIndex = 1
  /\ scores = <<>>
  /\ scoreList = EmptyScoreList
  /\ chatMessages = <<>>
  /\ sessionTimer = "blank"
  /\ rubric = DefaultRubric
  /\ sent = <<>>
  /\ sessionEnds = 0
  /\ clockStops = 0
  /\ lastSubmit = "none"
  /\ lastStep = "none"

InitCards == Loaded /\ kept = MaxStream

CardEvents ==
       {e \in EventsOf(Roles, Contents) : e.type \in {"agent_done", "council_done"}}
  \cup {e \in EventsOf(Roles, {None, Some(<<" ", "a">>)}) :
          e.type \in {"moderator_done", "error"}}

\* the task the user submits in SpecCards: padded text
CardTexts == {<<" ", "a", " ">>}

NextCards ==
  \/ \E text \in CardTexts : SendTask(text)
  \/ \E e \in CardEvents : WsMessage(1, e)
  \/ WsUnparsable(1)
  \/ BackendReads
  \/ ClearChat

SpecCards == InitCards /\ [][NextCards]_vars


(***************************************************************************)
(* SpecRank: the leaderboard.  A task has been accepted and read by the    *)
(* backend; the backend sends agent_done and council_done events with two  *)
(* answers neither of which is the better one in every sub-score, and the  *)
(* user moves the rubric sliders and clears the chat.                      *)
(***************************************************************************)
InitRank ==
  /\ kept = MaxStream
  /\ ws = 1
  /\ socket = [s \in SocketIds |-> IF s = 1 THEN "open" ELSE "none"]
  /\ reconnects = 0
  /\ connLabel = TRUE
  /\ councils = FullConfig.councils
  /\ selectedCouncil = "coding"
  /\ configPending = FALSE
  /\ healthPending = FALSE
  /\ hudInterval = TRUE
  /\ hudInFlight = 0
  /\ hudData = 0
  /\ isRunning = TRUE
  /\ inputDisabled = TRUE
  /\ sessionStart = TRUE
  /\ timerInterval = "interval"
  /\ agentColors = NoColors
  /\ nextColorIndex = 1
  /\ scores = <<>>
  /\ scoreList = EmptyScoreList
  /\ chatMessages = <<UserEntry(<<"a">>)>>
  /\ sessionTimer = "blank"
  /\ rubric = DefaultRubric
  /\ sent = <<>>
  /\ sessionEnds = 0
  /\ clockStops = 0
  /\ lastSubmit = "none"
  /\ lastStep = "none"

\* "a b c": 5 characters, 3 words; "abcdef": 6 characters, 1 word
RankContents == {Some(<<"a", " ", "b", " ", "c">>),
                 Some(<<"a", "b", "c", "d", "e", "f">>)}

RankEvents ==
  {e \in EventsOf(Agents, RankContents) : e.type \in {"agent_done", "council_done"}}

\* the sliders rubric-a, rubric-c, rubric-k, rubric-t and the ends of their range
RubricIds == {"a", "c", "k", "t"}
RubricValues == {0, 100}

NextRank ==
  \/ \E e \in RankEvents : WsMessage(1, e)
  \/ ClearChat
  \/ \E id \in RubricIds, v \in RubricValues : UpdateRubric(id, v)

SpecRank == InitRank /\ [][NextRank]_vars

(***************************************************************************)
(* SpecConn: the connection for as long as the page lives.  Every callback *)
(* of every socket, timers that fire as setTimeout promises, and a session *)
(* with one agent on top.                                                  *)
(***************************************************************************)
ConnEvents ==
  {e \in EventsOf({"Alpha"}, {Some(<<" ", "a">>)}) :
     e.type \in {"agent_done", "error", "council_done"}}

NextConn ==
  \/ \E text \in CardTexts : SendTask(text)
  \/ \E s \in SocketIds, e \in ConnEvents : WsMessage(s, e)
  \/ \E s \in SocketIds : WsOpen(s)
  \/ \E s \in SocketIds : WsError(s)
  \/ \E s \in SocketIds : WsClose(s)
  \/ ReconnectTimer
  \/ BackendReads
  \/ HudTick
  \/ \E d \in HudReadings : HudResult(d)
  \/ HudFailed

\* a timer that is due fires
SpecConn == Init /\ [][NextConn]_vars /\ WF_vars(ReconnectTimer)

(***************************************************************************)
(* SpecEvents: sessions in which the backend also sends events of types    *)
(* handleEvent has no branch for.                                          *)
(***************************************************************************)
\* events of types handleEvent has no branch for: one the backend sends today and
\* one it does not, the latter with content
UnknownEvents ==
       {e \in EventsOf(Roles, Contents) : e.type = "agent_start"}
  \cup {Ev("model_unloaded", Undefined, Some(<<" ", "a">>), 0, 0)}

KnownEvents ==
  {e \in EventsOf(Agents, {Some(<<" ", "a">>)}) :
     e.type \in {"agent_done", "error", "council_done"}}

NextEvents ==
  \/ \E text \in CardTexts : SendTask(text)
  \/ \E e \in KnownEvents \cup UnknownEvents : WsMessage(1, e)
  \/ BackendReads
  \/ ClearChat

SpecEvents == InitCards /\ [][NextEvents]_vars

(***************************************************************************)
(* SpecOrder: the order of the message stream.  The stream keeps MaxKept   *)
(* entries; the backend sends every event handleEvent has a branch for,    *)
(* with and without content and agent name; the connection can close, so   *)
(* that submissions are accepted, dropped and rejected.                    *)
(***************************************************************************)
InitOrder == Loaded /\ kept = MaxKept

OrderEvents ==
  {e \in EventsOf({"Alpha", Undefined}, {None, Some(<<" ", "a">>)}) : e.type \in EventTypes}

NextOrder ==
  \/ \E text \in CardTexts : SendTask(text)
  \/ \E e \in OrderEvents : WsMessage(1, e)
  \/ WsClose(1)
  \/ ClearChat

SpecOrder == InitOrder /\ [][NextOrder]_vars

(***************************************************************************)
(* SpecLoad: the page loads.  /api/config answers with one of Configs or   *)
(* fails, /api/health answers, the socket opens, the user picks councils   *)
(* and submits tasks, and the backend ends the sessions.                   *)
(***************************************************************************)
LoadEvents == {Ev("council_done", Undefined, None, 0, 0)}

NextLoad ==
  \/ \E cfg \in Configs : LoadConfigOk(cfg)
  \/ LoadConfigFail
  \/ \E connected \in BOOLEAN : HealthResult(connected)
  \/ \E key \in FullConfig.councils : SelectCouncil(key)
  \/ WsOpen(1)
  \/ \E text \in CardTexts : SendTask(text)
  \/ \E e \in LoadEvents : WsMessage(1, e)
  \/ BackendReads

SpecLoad == Init /\ [][NextLoad]_vars

(***************************************************************************)
(* Properties of the session lifecycle, checked under Spec.                *)
(***************************************************************************)
Last(stream) == stream[Len(stream)]

TerminalEvents == {e \in LifecycleEvents : e.type \in {"error", "council_done"}}

\* what sendTask may not touch when it rejects
sessionState == <<isRunning, agentColors, nextColorIndex, scores, timerInterval, sessionStart>>

\* C1: a task message is sent only by a sendTask call that finds the session idle,
\* and that call makes it running; the session leaves running only when an error or
\* council_done event is handled; a sendTask call that finds the session running
\* sends nothing and changes nothing, so nothing is kept for later.
SingleFlight ==
  [][ /\ Len(sent') > Len(sent) =>
           /\ ~isRunning /\ isRunning'
           /\ \E text \in Texts : SendTask(text)
      /\ isRunning /\ ~isRunning' =>
           \E s \in SocketIds, e \in TerminalEvents : WsMessage(s, e)
      /\ \A text \in Texts : SendTask(text) /\ isRunning =>
           UNCHANGED <<sent, sessionState, chatMessages, scoreList>>
    ]_vars

\* a sendTask call has just been dropped while a task was running and still in flight
SingleFlightWitness ==
  /\ lastSubmit = "running"
  /\ isRunning
  /\ sent # <<>>

\* C2: a sendTask call that finds the session idle, the connection open and a
\* text that is not empty once trimmed sends exactly one message, {type: 'task',
\* council: the selected council, task: the trimmed text}, clears the color map and
\* the scores, resets the counter to 1, sets running and starts the clock.
AcceptedSubmission ==
  [][ \A text \in Texts :
        (SendTask(text) /\ ~isRunning /\ socket[ws] = "open" /\ Trim(text) # <<>>) =>
          /\ sent' = Append(sent, [type |-> "task", council |-> selectedCouncil,
                                   task |-> Trim(text)])
          /\ \A r \in Roles : agentColors'[r] = 0
          /\ nextColorIndex' = 1
          /\ scores' = <<>>
          /\ isRunning'
          /\ timerInterval' = "interval"
          /\ sessionStart'
    ]_vars

\* the padded text " a " has just been accepted for the council "coding": the
\* message in flight carries the trimmed text
AcceptedSubmissionWitness ==
  /\ lastSubmit = "accepted"
  /\ sent = <<[type |-> "task", council |-> "coding", task |-> <<"a">>]>>
  /\ isRunning
  /\ timerInterval = "interval"
  /\ agentColors = NoColors

\* C3: a sendTask call that finds the session running, or the connection not open,
\* or a text that is empty once trimmed, sends nothing and leaves the running flag,
\* the color map, the counter, the scores and the clock as they were.
InvalidSubmissionNoOp ==
  [][ \A text \in Texts :
        (SendTask(text) /\ (isRunning \/ socket[ws] # "open" \/ Trim(text) = <<>>)) =>
          UNCHANGED <<sent, sessionState>>
    ]_vars

\* a submission has just been rejected for a closed connection, with a color
\* assigned and the session running
InvalidSubmissionWitness ==
  /\ lastSubmit \in {"running", "closed"}
  /\ socket[ws] # "open"
  /\ agentColors["Alpha"] # 0
  /\ isRunning

\* C4 as claimed: a sendTask call with a text to send that is rejected because the
\* session is running, and one rejected because the connection is not open, each
\* append an error message.
RejectionAlwaysShown ==
  [][ \A text \in Texts :
        (SendTask(text) /\ Trim(text) # <<>> /\ (isRunning \/ socket[ws] # "open")) =>
          /\ chatMessages' # <<>>
          /\ Last(chatMessages').kind = "error"
          /\ chatMessages' = Newest(Append(chatMessages, Last(chatMessages')))
    ]_vars

\* C4 as amended: a sendTask call with a text that is not empty once trimmed, made
\* while the session is idle and the connection is not open, appends the error
\* message 'WebSocket not connected.'; a call made while the session is running
\* appends nothing.
RejectionShownWhenIdle ==
  [][ \A text \in Texts :
        /\ (SendTask(text) /\ ~isRunning /\ socket[ws] # "open" /\ Trim(text) # <<>>) =>
             chatMessages' = Newest(Append(chatMessages, ErrorEntry(NotConnected)))
        /\ (SendTask(text) /\ isRunning) => chatMessages' = chatMessages
    ]_vars

\* a submission has just been rejected with the message, the session being idle
RejectionShownWitness ==
  /\ lastSubmit = "closed"
  /\ ~isRunning
  /\ chatMessages # <<>>
  /\ Last(chatMessages) = ErrorEntry(NotConnected)


\* C5: when a council_done event is handled after a task was accepted, the session
\* is idle and the clock stopped afterwards, the session has gone from running to
\* idle exactly once and the clock has been stopped exactly once since that task
\* was accepted, and the scoreboard shows one row for each recorded score.
CouncilDoneEndsSession ==
  [][ (sessionStart /\ \E s \in SocketIds :
                         WsMessage(s, Ev("council_done", Undefined, None, 0, 0))) =>
        /\ ~isRunning'
        /\ timerInterval' = "null"
        /\ sessionEnds' = 1
        /\ clockStops' = 1
        /\ scores' = scores
        /\ ~scoreList'.placeholder
        /\ Len(scoreList'.rows) = Len(scores)
        /\ \A i \in 1..Len(scores) :
             \E j \in 1..Len(scores) : scoreList'.rows[j].role = scores[i].role
    ]_vars

\* council_done has just ended a session in which an agent was scored
CouncilDoneWitness ==
  /\ chatMessages # <<>>
  /\ Last(chatMessages) = StatusEntry(SessionComplete)
  /\ sessionStart
  /\ ~isRunning
  /\ timerInterval = "null"
  /\ sessionEnds = 1
  /\ clockStops = 1
  /\ Len(scoreList.rows) = 1

\* C6 as claimed: handling an error event that carries a message text leaves the
\* session idle and the clock stopped, appends that text as it is, sends nothing
\* and leaves the connection as it was.
ErrorTextVerbatim ==
  [][ \A s \in SocketIds, c \in {Some(<<>>), Some(<<" ", "a">>)} :
        WsMessage(s, Ev("error", Undefined, c, 0, 0)) =>
          /\ ~isRunning'
          /\ timerInterval' = "null"
          /\ chatMessages' = Newest(Append(chatMessages, ErrorEntry(c[1])))
          /\ sent' = sent
          /\ UNCHANGED connVars
    ]_vars

\* C6 as amended: handling an error event leaves the session idle and the clock
\* stopped, appends the event's message text as it is when that text is not empty
\* and the text 'Unknown error' when it is empty or missing, sends nothing and
\* leaves the connection as it was.
ErrorTextOrUnknown ==
  [][ \A s \in SocketIds, c \in {None, Some(<<>>), Some(<<" ", "a">>)} :
        WsMessage(s, Ev("error", Undefined, c, 0, 0)) =>
          /\ ~isRunning'
          /\ timerInterval' = "null"
          /\ chatMessages' = Newest(Append(chatMessages,
                 ErrorEntry(IF c \in {None, Some(<<>>)} THEN UnknownError ELSE c[1])))
          /\ sent' = sent
          /\ UNCHANGED connVars
    ]_vars

\* an error event with the text " a" has just ended a running session
ErrorTextWitness ==
  /\ chatMessages # <<>>
  /\ Last(chatMessages) = ErrorEntry(<<" ", "a">>)
  /\ sessionStart
  /\ ~isRunning
  /\ sessionEnds = 1
  /\ clockStops = 1
  /\ socket[ws] = "open"


(***************************************************************************)
(* Properties of cards, colors and scores, checked under SpecCards.        *)
(***************************************************************************)
\* the agent names that hold a color
Colored == {a \in Agents : agentColors[a] # 0}

\* C7 as claimed: from one accepted submission to the next an agent name keeps the
\* index it was given, and two agent names never hold the same index while fewer
\* than six names have appeared.
ColorStableInjective ==
  [][ (sessionStart /\ lastSubmit' # "accepted") =>
        /\ \A a \in Agents : agentColors[a] # 0 => agentColors'[a] = agentColors[a]
        /\ \A a, b \in Agents :
             (a # b /\ agentColors'[a] # 0 /\ agentColors'[b] # 0) =>
               agentColors'[a] # agentColors'[b]
    ]_vars

\* C8 as claimed: the counter and every assigned index lie in 1..5, and the k-th
\* distinct agent name to appear in an agent_done event since the last reset is
\* given the index ((k - 1) mod 5) + 1.
ColorFirstSeenOrder ==
  /\ [](nextColorIndex \in 1..PaletteSize)
  /\ [](\A a \in Agents : agentColors[a] \in 0..PaletteSize)
  /\ [][ \A a \in Agents :
           (agentColors[a] = 0 /\ agentColors'[a] # 0) =>
             agentColors'[a] = (Cardinality(Colored) % PaletteSize) + 1
       ]_vars

\* C9: handling a moderator_done event leaves the color map, the counter, the
\* scores and the running flag as they were, and the card it appends is a
\* moderator card with index 0.
ModeratorOutsidePalette ==
  [][ \A c \in Contents :
        WsMessage(1, Ev("moderator_done", Undefined, c, 0, 0)) =>
          /\ UNCHANGED <<agentColors, nextColorIndex, scores, isRunning>>
          /\ chatMessages' # <<>>
          /\ Last(chatMessages').kind = "moderator"
          /\ Last(chatMessages').idx = 0
          /\ chatMessages' = Newest(Append(chatMessages, Last(chatMessages')))
    ]_vars

\* a moderator card is the newest entry of a running session in which two agents
\* hold colors and scores
ModeratorWitness ==
  /\ chatMessages # <<>>
  /\ Last(chatMessages).kind = "moderator"
  /\ Last(chatMessages).idx = 0
  /\ isRunning
  /\ Colored = Agents
  /\ Len(scores) = 2
  /\ nextColorIndex = 3

\* the contents the backend sends when a model produced nothing to show
Blank == {None, Some(<<>>), Some(<<" ">>)}

\* C10: handling an agent_done event of a named agent whose content is missing,
\* empty or only whitespace appends a card of that agent with the text
\* '[No response]' and no error, records for the agent the score of that text,
\* and leaves the running flag as it was.
BlankContentPlaceholder ==
  [][ \A a \in Agents, c \in Blank :
        WsMessage(1, Ev("agent_done", a, c, 0, 0)) =>
          /\ chatMessages' = Newest(Append(chatMessages,
                 [kind |-> "agent", role |-> a, idx |-> agentColors'[a],
                  text |-> NoResponse, round |-> 0, total |-> 0]))
          /\ \E i \in 1..Len(scores') :
               scores'[i] = [role |-> a, acc |-> ScoreOf(NoResponse).acc,
                             comp |-> ScoreOf(NoResponse).comp,
                             conc |-> ScoreOf(NoResponse).conc,
                             tone |-> ScoreOf(NoResponse).tone]
          /\ isRunning' = isRunning
    ]_vars

\* the card of Alpha shows the placeholder in a running session, and the score of
\* Alpha is the one of the placeholder: 7.8, 6.14.., 7.125 and 6.7 on the scale
BlankContentWitness ==
  /\ isRunning
  /\ chatMessages # <<>>
  /\ Last(chatMessages) = CardEntry("Alpha", 1, NoResponse, FALSE)
  /\ \E i \in 1..Len(scores) :
       scores[i] = [role |-> "Alpha", acc |-> 2184, comp |-> 1720,
                    conc |-> 1995, tone |-> 1876]


(***************************************************************************)
(* Properties of the score records.                                        *)
(***************************************************************************)
\* the records sc holds for the agent a: none or one
RecordsOf(sc, a) == {sc[i] : i \in {j \in 1..Len(sc) : sc[j].role = a}}

\* the text a card shows for the content c of an event
Shown(c) == IF c \in Blank THEN NoResponse ELSE Trim(c[1])

\* C11: handling an agent_done event of a named agent leaves that agent with exactly
\* the score of the event's trimmed text, or of the placeholder, and every other
\* agent's record as it was; and the record an agent holds changes in no other
\* step but clearChat and an accepted submission, which are the resets.
LastOccurrenceWins ==
  [][ /\ \A a \in Agents, c \in Contents :
           WsMessage(1, Ev("agent_done", a, c, 0, 0)) =>
             /\ RecordsOf(scores', a) =
                  {[role |-> a, acc |-> ScoreOf(Shown(c)).acc,
                    comp |-> ScoreOf(Shown(c)).comp,
                    conc |-> ScoreOf(Shown(c)).conc,
                    tone |-> ScoreOf(Shown(c)).tone]}
             /\ \A b \in Agents \ {a} : RecordsOf(scores', b) = RecordsOf(scores, b)
      /\ \A a \in Agents :
           (RecordsOf(scores, a) # {} /\ RecordsOf(scores', a) # RecordsOf(scores, a)) =>
             \/ \E c \in Contents : WsMessage(1, Ev("agent_done", a, c, 0, 0))
             \/ ClearChat
             \/ lastSubmit' = "accepted"
    ]_vars

\* Alpha was scored before Beta and again after Beta: the newest card is Alpha's,
\* with the text "a", and Alpha's record is the score of "a"
LastOccurrenceWitness ==
  /\ Len(scores) = 2
  /\ scores[1] = [role |-> "Alpha", acc |-> 1848, comp |-> 1700,
                  conc |-> 1575, tone |-> 1848]
  /\ scores[2].role = "Beta"
  /\ chatMessages # <<>>
  /\ Last(chatMessages).kind = "agent"
  /\ Last(chatMessages).role = "Alpha"
  /\ Last(chatMessages).text = <<"a">>


(***************************************************************************)
(* Properties of the leaderboard, checked under SpecRank.                  *)
(***************************************************************************)
\* the step has rendered the leaderboard: updateRubric with a score record held,
\* or council_done
Rendered ==
  \/ /\ scores # <<>>
     /\ \E id \in RubricIds, v \in RubricValues : UpdateRubric(id, v)
  \/ WsMessage(1, Ev("council_done", Undefined, None, 0, 0))

\* the weighted sum of the sub-scores s for the weights w
Weighted(s, w) == s.acc * w.a + s.comp * w.c + s.conc * w.k + s.tone * w.t

\* C12 as claimed: every row the leaderboard is rendered with shows, for the slider
\* values w at the time, the overall score Weighted(s, w) / (w.a + w.c + w.k + w.t)
\* of its agent's sub-scores s, a weight of 0 included, with another divisor only
\* when the sum of the weights is 0.
OverallUsesWeights ==
  [][ Rendered =>
        \A i \in 1..Len(scoreList'.rows) :
          \E j \in 1..Len(scores') :
            /\ scores'[j].role = scoreList'.rows[i].role
            /\ LET sum == rubric'.a + rubric'.c + rubric'.k + rubric'.t
               IN  scoreList'.rows[i].overall * (IF sum = 0 THEN 1 ELSE sum)
                     = Weighted(scores'[j], rubric') * scoreList'.rows[i].total
    ]_vars

\* the place of the agent a in the order in which the agents were first scored
FirstScored(sc, a) == CHOOSE j \in 1..Len(sc) : sc[j].role = a

\* C13: every time the leaderboard is rendered its rows are exactly the agents that
\* hold a score record, one row each, in descending order of overall score, and of
\* two rows with equal overall scores the agent first scored comes first.
LeaderboardOrder ==
  [][ Rendered =>
        LET rows == scoreList'.rows
        IN  /\ ~scoreList'.placeholder
            /\ Len(rows) = Len(scores')
            /\ {rows[i].role : i \in 1..Len(rows)}
                 = {scores'[j].role : j \in 1..Len(scores')}
            /\ \A i, k \in 1..Len(rows) :
                 i < k =>
                   /\ rows[i].overall * rows[k].total >= rows[k].overall * rows[i].total
                   /\ rows[i].overall * rows[k].total = rows[k].overall * rows[i].total
                        => FirstScored(scores', rows[i].role)
                             < FirstScored(scores', rows[k].role)
    ]_vars

\* two agents with the same answer tie, and the one first scored is ranked first,
\* after council_done
LeaderboardTieWitness ==
  /\ ~isRunning
  /\ Len(scores) = 2
  /\ Len(scoreList.rows) = 2
  /\ scoreList.rows[1].overall = scoreList.rows[2].overall
  /\ scoreList.rows[1].role = scores[1].role
  /\ scoreList.rows[2].role = scores[2].role

\* the agents of the rows, first to last
RolesOf(rows) == [i \in 1..Len(rows) |-> rows[i].role]

\* rank(sc, w): the agents of the score records sc in descending order of
\* Weighted(s, w), the first scored first on a tie
RankedAsClaimed(sc, w) ==
  RolesOf(SortRows([i \in 1..Len(sc) |->
            [role |-> sc[i].role, overall |-> Weighted(sc[i], w), total |-> 1]]))

\* C14 as claimed: moving a rubric slider leaves the score records, the running
\* flag, the colors and the connection as they were and sends nothing, and when
\* score records are held the leaderboard then ranks them by the new slider values.
RerankFromCache ==
  [][ \A id \in RubricIds, v \in RubricValues :
        UpdateRubric(id, v) =>
          /\ UNCHANGED <<scores, isRunning, agentColors, nextColorIndex, connVars, sent>>
          /\ scores # <<>> => RolesOf(scoreList'.rows) = RankedAsClaimed(scores, rubric')
    ]_vars


(***************************************************************************)
(* Properties of the connection, checked under SpecConn.                   *)
(***************************************************************************)
\* C15: a close event of a socket schedules exactly one reconnect and nothing else
\* schedules one; a timer that fires creates exactly one socket, which becomes the
\* current one; a reconnect is pending exactly while the current socket is closed;
\* and whenever the current socket is closed, however many closed before it, a new
\* socket is eventually connecting.
ReconnectForever ==
  /\ [][ /\ \A s \in SocketIds : WsClose(s) =>
              /\ reconnects' = reconnects + 1
              /\ ws' = ws
              /\ \A t \in SocketIds \ {s} : socket'[t] = socket[t]
         /\ reconnects' > reconnects => \E s \in SocketIds : WsClose(s)
         /\ (\E s \in SocketIds : socket'[s] = "connecting" /\ socket[s] # "connecting") =>
              /\ ReconnectTimer
              /\ reconnects' = reconnects - 1
              /\ ws' # ws
              /\ socket'[ws'] = "connecting"
              /\ \A t \in SocketIds \ {ws'} : socket'[t] = socket[t]
       ]_vars
  /\ [](reconnects = IF socket[ws] = "closed" THEN 1 ELSE 0)
  /\ (socket[ws] = "closed") ~> (socket[ws] = "connecting")

\* the third socket of the page is connecting: two sockets have closed before it
ReconnectForeverWitness ==
  /\ ws = 1
  /\ socket[1] = "connecting"
  /\ socket[2] = "closed"
  /\ reconnects = 0


\* a callback of the transport has run: onopen, onerror or onclose of a socket, or
\* the timer that reconnects
TransportStep ==
  \/ \E s \in SocketIds : WsOpen(s) \/ WsError(s) \/ WsClose(s)
  \/ ReconnectTimer

\* C16: the callbacks of the transport leave the running flag, the colors, the
\* score records, the clock, the message stream and the leaderboard as they were;
\* the session leaves running only when an error or council_done event is handled;
\* and a sendTask call that finds the session running sends nothing, whatever the
\* state of the connection.
TransportLossKeepsSession ==
  [][ /\ TransportStep =>
           UNCHANGED <<isRunning, inputDisabled, agentColors, nextColorIndex, scores,
                       timerInterval, sessionStart, chatMessages, scoreList>>
      /\ isRunning /\ ~isRunning' =>
           \E s \in SocketIds, e \in ConnEvents :
             e.type \in {"error", "council_done"} /\ WsMessage(s, e)
      /\ \A text \in CardTexts :
           SendTask(text) /\ isRunning => sent' = sent /\ isRunning'
    ]_vars

\* a submission has just been dropped by a session that is still running, with its
\* clock and colors, on the third socket of the page, before that socket has opened
TransportLossWitness ==
  /\ lastSubmit = "running"
  /\ isRunning
  /\ timerInterval = "interval"
  /\ agentColors["Alpha"] = 1
  /\ sessionEnds = 0
  /\ ws = 1
  /\ socket[1] = "connecting"
  /\ socket[2] = "closed"

\* the page has seen its current socket fail or close and has no newer one
Lost == socket[ws] \in {"errored", "closed"}

\* C18 as stated: the interval of the telemetry poller is cancelled when the
\* connection is lost, so no poll fires while the current socket has failed or closed.
PollsStopWhenLost ==
  /\ [](Lost => ~hudInterval)
  /\ [][HudTick => ~Lost]_vars

\* C18 as the code has it: the interval of startHudLoop stays set in every state; the
\* callbacks of the transport leave the poller as it was; and whatever the state of
\* the connection, a poll can fire as soon as fewer than MaxPolls requests are in
\* flight, and when it fires it sends one request.
PollsOutliveConnection ==
  /\ []hudInterval
  /\ [][TransportStep => UNCHANGED hudVars]_vars
  /\ [](hudInFlight < MaxPolls => ENABLED HudTick)
  /\ [][HudTick => hudInFlight' = hudInFlight + 1 /\ UNCHANGED connVars]_vars

\* a poll has just fired although the current socket has closed
PollWhileLostWitness ==
  /\ lastStep = "poll"
  /\ socket[ws] = "closed"
  /\ ~connLabel
  /\ hudInFlight > 0

\* C20: an inbound event whose type is none of status, round_start, agent_done,
\* moderator_done, error and council_done changes nothing: the running flag, the input,
\* the colors, the scores, the leaderboard, the clock and the message stream stay as
\* they were, and nothing is sent.  Only such an event is dropped in this way.
UnknownEventNoOp ==
  [][ /\ \A e \in UnknownEvents : WsMessage(1, e) =>
            UNCHANGED <<isRunning, inputDisabled, agentColors, nextColorIndex, scores,
                        scoreList, sessionStart, timerInterval, sessionTimer,
                        chatMessages, sent, sessionEnds, clockStops>>
      /\ lastStep' = "ignored" =>
            /\ \E e \in UnknownEvents : e.type \notin EventTypes /\ WsMessage(1, e)
            /\ UNCHANGED <<connVars, cfgVars, sessVars, colorVars, scoreVars,
                           chatMessages, sessionTimer, rubric, sent>>
    ]_vars

\* an event of an unknown type has just been handled in a running session that has
\* cards, colors and scores
UnknownEventWitness ==
  /\ lastStep = "ignored"
  /\ isRunning
  /\ timerInterval = "interval"
  /\ scores # <<>>
  /\ agentColors # NoColors
  /\ chatMessages # <<>>

(***************************************************************************)
(* C17  In every reachable state the elapsed-time clock is active if and   *)
(* only if the session is Running: nothing but the end of the session      *)
(* stops the clock of a running session.                                   *)
(* clearChat calls stopTimer and leaves state.isRunning alone, so the      *)
(* statement fails in the code.                                            *)
(***************************************************************************)
ClockIffRunning == (timerInterval = "interval") <=> isRunning

(***************************************************************************)
(* C19  A council key that the loaded configuration does not have leaves   *)
(* the selected council as it was, so once the configuration is loaded the *)
(* council of every task message sent is one of its keys.                  *)
(* loadConfig and selectCouncil assign state.selectedCouncil before the    *)
(* key is looked up, so the statement fails in the code.                   *)
(***************************************************************************)
UnknownKeyKeepsSelection ==
  [][ /\ selectedCouncil' # selectedCouncil => selectedCouncil' \in councils'
      /\ (~configPending' /\ Len(sent') > Len(sent)) =>
           sent'[Len(sent')].council \in councils'
    ]_vars

(***************************************************************************)
(* C21  A payload that cannot be handled to the end, such as an agent_done *)
(* without an agent name, leaves the running flag, the color map, the      *)
(* color counter, the score records and the message stream as they were.   *)
(* addAgentCard calls colorIndex before role.split throws, so a color is   *)
(* handed out to the missing name and the statement fails in the code.     *)
(***************************************************************************)
MalformedDiscarded ==
  [][ \A c \in Contents :
        WsMessage(1, Ev("agent_done", Undefined, c, 0, 0)) =>
          UNCHANGED <<isRunning, agentColors, nextColorIndex, scores, chatMessages>>
    ]_vars

(***************************************************************************)
(* C22  An event handled while the session is idle, such as an agent_done  *)
(* that arrives after the session has ended, leaves the running flag, the  *)
(* color map and the score records as they were.                           *)
(* handleEvent never reads state.isRunning, so a late agent_done still     *)
(* takes a color and a score record and the statement fails in the code.   *)
(***************************************************************************)
IdleEventsIgnored ==
  [][ \A e \in CardEvents :
        (~isRunning /\ sessionEnds > 0 /\ WsMessage(1, e)) =>
          UNCHANGED <<isRunning, agentColors, scores>>
    ]_vars

(***************************************************************************)
(* Properties of the message stream, checked under SpecOrder.              *)
(***************************************************************************)
\* the stream has got one entry at its end and has kept the ones before it in place
GrownByOne ==
  /\ chatMessages' # <<>>
  /\ chatMessages' = Newest(Append(chatMessages, Last(chatMessages')))

\* the event carries what its handler reads: a status its content, an agent_done
\* its agent name
Complete(e) ==
  /\ e.type = "status" => e.content # None
  /\ e.type = "agent_done" => e.agent # Undefined

\* the kind of entry the handler of an event makes
KindOf(e) ==
  CASE e.type = "status"         -> "status"
    [] e.type = "round_start"    -> "round"
    [] e.type = "agent_done"     -> "agent"
    [] e.type = "moderator_done" -> "moderator"
    [] e.type = "error"          -> "error"
    [] e.type = "council_done"   -> "status"

\* C23: the stream only grows at its end.  Every step but clearChat leaves the stream
\* as it was or puts one entry after the entries it had, which stay in place; an
\* event that its handler can handle to the end puts its own entry there in the step
\* that handles it, an accepted submission the user's message, and a submission
\* rejected for want of a connection the error message.
StreamAppendOnly ==
  [][ /\ ~ClearChat => (chatMessages' = chatMessages \/ GrownByOne)
      /\ \A e \in OrderEvents :
           (WsMessage(1, e) /\ Complete(e)) =>
             /\ GrownByOne
             /\ Last(chatMessages').kind = KindOf(e)
             /\ e.type = "agent_done" => Last(chatMessages').role = e.agent
             /\ e.type = "round_start" => Last(chatMessages').round = e.round
      /\ lastSubmit' = "accepted" => (GrownByOne /\ Last(chatMessages').kind = "user")
      /\ lastSubmit' = "closed" =>
           (GrownByOne /\ Last(chatMessages') = ErrorEntry(NotConnected))
    ]_vars

\* a moderator card stands after an agent card, in the order the events came
StreamOrderWitness ==
  /\ Len(chatMessages) = 2
  /\ chatMessages[1].kind = "agent"
  /\ chatMessages[2].kind = "moderator"
  /\ isRunning

\* the fields of `state`
stateFields ==
  <<ws, councils, selectedCouncil, isRunning, agentColors, nextColorIndex,
    sessionStart, timerInterval, scores>>

RoundEvents == {e \in OrderEvents : e.type = "round_start"}

SocketsIn(S) == {s \in SocketIds : socket[s] \in S}

\* C25 as stated: at every moment exactly one of a connecting or open socket and a
\* pending reconnect timer exists.
ExactlyOneLiveOrPending ==
  Cardinality(SocketsIn({"connecting", "open"})) + reconnects = 1

\* C25 as the code has it: at every moment exactly one of a socket whose onclose has
\* not run and a pending reconnect timer exists, so never two sockets and never two
\* pending reconnects; between onerror and onclose of a socket that one is the
\* failed socket, and neither a connecting or open socket nor a timer exists.  The
\* handle state.ws refers to the socket created last: every other socket has
\* closed or was never created, and the handle moves exactly when a timer creates
\* a socket, to that socket.
OneConnectionResource ==
  /\ [](Cardinality(SocketsIn({"connecting", "open", "errored"})) + reconnects = 1)
  /\ [](\A s \in SocketIds \ {ws} : socket[s] \in {"none", "closed"})
  /\ [](socket[ws] # "none")
  /\ [][ /\ ws' # ws => (ReconnectTimer /\ socket'[ws'] = "connecting")
         /\ (\E s \in SocketIds : socket'[s] = "connecting" /\ socket[s] # "connecting")
              => (ws' # ws /\ socket[ws] = "closed")
       ]_vars

\* the second socket of the page has failed and its onclose has not run yet: no
\* socket is connecting or open and no reconnect is pending
FailedSocketWitness ==
  /\ ws = 2
  /\ socket[1] = "closed"
  /\ socket[2] = "errored"
  /\ reconnects = 0

====
